---- MODULE Spec2Model ----
(***************************************************************************)
(* Model of scripts/update_marketdata.py: the batch loop of main(), the    *)
(* Close extraction of _extract_close_df, the log-return / annualized      *)
(* volatility computation and the null-safe assembly of the records.       *)
(*                                                                         *)
(* Numbers.  A float is a triple <<kind, a, b>>:                           *)
(*   <<"nan",0,1>>   NaN (pandas "missing")                                *)
(*   <<"num",v,1>>   the number v (closes; log-returns in units of ln 2)   *)
(*   <<"inf",0,1>>, <<"ninf",0,1>>   +inf, -inf                            *)
(*   <<"sqrt",p,q>>  ln 2 * sqrt(p/q), p/q in lowest terms (volatilities)  *)
(* Closes are 0 or powers of two, so that ln(close[t]/close[t-1]) is an    *)
(* integer multiple of ln 2 and the sample variance is an exact rational.  *)
(***************************************************************************)
EXTENDS Integers, Sequences, FiniteSets, TLC

\* pc: where main() is; i: the batch the loop is at; results, df, close,
\* logret, vols: the locals of main(); calls: the calls of yf.download made so
\* far (tickers asked, what the provider did, the branch taken, the length of
\* results before); probe: the result of a call of _ann_vol_from_logret_window
VARIABLES pc, i, results, calls, df, close, logret, vols, probe

vars == <<pc, i, results, calls, df, close, logret, vols, probe>>

-----------------------------------------------------------------------------
(* Bounds of the model *)

\* number of keys of the registry (33 in the source)
NumSymbols == 3
\* rows of history of the tables the volatility engine is enumerated over
\* (about 400 in the source)
MaxRows == 7
\* the trailing windows, scaled with the history: 5, 21, 63, 126 in the source
WeeklyRows == 2
MonthlyRows == 3
QuarterlyRows == 4
SemiannualRows == 5
\* symbols per batch (100 in the source)
BatchSize == 2

\* the closes a provider cell can hold besides NaN
Prices == {0, 1, 2}

-----------------------------------------------------------------------------
(* Configuration *)

TRADING_DAYS == 252

\* labels: tickers, display names and the provider's field names
Key(k) == <<"sym", k>>
DisplayName(k) == <<"name", k>>
CloseField == <<"Close", 0>>
OpenField == <<"Open", 0>>

\* SYMBOLS: ordered mapping ticker -> display name
SYMBOLS == [k \in 1..NumSymbols |-> [symbol |-> Key(k), name |-> DisplayName(k)]]

\* list(SYMBOLS.keys())
SymbolKeys == [k \in 1..NumSymbols |-> SYMBOLS[k].symbol]

\* SYMBOLS.get(sym, sym)
SymbolsGet(sym) ==
    IF \E k \in 1..NumSymbols : SYMBOLS[k].symbol = sym
    THEN (CHOOSE r \in {SYMBOLS[k] : k \in 1..NumSymbols} : r.symbol = sym).name
    ELSE sym

\* the windows with their lengths swapped end for end
WINDOWS_Reversed == [weekly |-> SemiannualRows, monthly |-> QuarterlyRows,
                     quarterly |-> MonthlyRows, semiannual |-> WeeklyRows]

WINDOWS == [weekly |-> WeeklyRows, monthly |-> MonthlyRows,
            quarterly |-> QuarterlyRows, semiannual |-> SemiannualRows]

-----------------------------------------------------------------------------
(* Floats *)

NaN == <<"nan", 0, 1>>
Num(v) == <<"num", v, 1>>
PosInf == <<"inf", 0, 1>>
NegInf == <<"ninf", 0, 1>>
None == <<"null", 0, 1>>

\* pd.isna on a scalar: only NaN is missing, an infinity is not
IsNa(x) == x[1] = "nan"

RECURSIVE Log2(_)
Log2(p) == IF p <= 1 THEN 0 ELSE 1 + Log2(p \div 2)

RECURSIVE GCD(_, _)
GCD(a, b) == IF b = 0 THEN a ELSE GCD(b, a % b)

\* np.log(a / b) elementwise, in units of ln 2
LogRatio(a, b) ==
    IF IsNa(a) \/ IsNa(b) THEN NaN
    ELSE IF b[2] = 0 THEN (IF a[2] = 0 THEN NaN ELSE PosInf)
    ELSE IF a[2] = 0 THEN NegInf
    ELSE Num(Log2(a[2]) - Log2(b[2]))

RECURSIVE SumSeq(_)
SumSeq(s) == IF s = <<>> THEN 0 ELSE Head(s) + SumSeq(Tail(s))

Range(s) == {s[j] : j \in DOMAIN s}

-----------------------------------------------------------------------------
(* Frames: rows, ordered column labels, one column (a sequence) per label *)

EmptyFrame == [rows |-> 0, columns |-> <<>>, data |-> <<>>]

\* DataFrame.empty
IsEmpty(f) == f.rows = 0 \/ Len(f.columns) = 0

AllNaN(n) == [t \in 1..n |-> NaN]

\* no forward fill: the column as it is
NoFfill(col) == col

\* Series.ffill along the date axis
Ffill(col) ==
    [t \in 1..Len(col) |->
        IF \E u \in 1..t : ~IsNa(col[u])
        THEN col[CHOOSE u \in 1..t : ~IsNa(col[u]) /\ \A w \in (u+1)..t : IsNa(col[w])]
        ELSE NaN]

\* log-returns taken from the forward-filled column
LogRetColFilled(col) ==
    [t \in 1..Len(col) |->
        IF t = 1 THEN NaN ELSE LogRatio(Ffill(col)[t], Ffill(col)[t-1])]

\* column of np.log(close / close.shift(1)): same rows as close, first row NaN
LogRetCol(col) ==
    [t \in 1..Len(col) |-> IF t = 1 THEN NaN ELSE LogRatio(col[t], col[t-1])]

\* DataFrame.tail(window) on one column
TailRows(col, window) ==
    IF window >= Len(col) THEN col
    ELSE [t \in 1..window |-> col[Len(col) - window + t]]

\* the population deviation (ddof=0): defined from one observation on
StdDdof0(col) ==
    LET valid == SelectSeq(col, LAMBDA x : ~IsNa(x))
        n     == Len(valid)
    IN  IF n <= 0 THEN NaN
        ELSE IF \E j \in 1..n : valid[j][1] # "num" THEN NaN
        ELSE LET s1 == SumSeq([j \in 1..n |-> valid[j][2]])
                 s2 == SumSeq([j \in 1..n |-> valid[j][2] * valid[j][2]])
                 p  == n * s2 - s1 * s1
                 q  == n * n
                 g  == GCD(p, q)
             IN  <<"sqrt", p \div g, q \div g>>

\* Series.std(ddof=1), NaN skipped, in units of ln 2
StdDdof1(col) ==
    LET valid == SelectSeq(col, LAMBDA x : ~IsNa(x))
        n     == Len(valid)
    IN  IF n - 1 <= 0 THEN NaN
        ELSE IF \E j \in 1..n : valid[j][1] # "num" THEN NaN
        ELSE LET s1 == SumSeq([j \in 1..n |-> valid[j][2]])
                 s2 == SumSeq([j \in 1..n |-> valid[j][2] * valid[j][2]])
                 p  == n * s2 - s1 * s1
                 q  == n * (n - 1)
                 g  == GCD(p, q)
             IN  <<"sqrt", p \div g, q \div g>>

\* x * np.sqrt(TRADING_DAYS)
Annualize(x) ==
    IF IsNa(x) THEN NaN
    ELSE LET p == x[2] * TRADING_DAYS
             g == GCD(p, x[3])
         IN  <<"sqrt", p \div g, x[3] \div g>>

-----------------------------------------------------------------------------
(* Series indexed by label, and the frame-level operations *)

EmptySeries == [index |-> <<>>, data |-> <<>>]

\* Series.get(sym, default)
SeriesGet(s, sym, default) ==
    IF sym \in Range(s.index) THEN s.data[sym] ELSE default

\* DataFrame.ffill()
FrameFfill(f) ==
    [f EXCEPT !.data = [c \in DOMAIN f.data |-> Ffill(f.data[c])]]

\* DataFrame.iloc[-1]
LastRow(f) ==
    [index |-> f.columns, data |-> [c \in DOMAIN f.data |-> f.data[c][f.rows]]]

\* np.log(close / close.shift(1))
LogRet(f) ==
    [f EXCEPT !.data = [c \in DOMAIN f.data |-> LogRetCol(f.data[c])]]

\* DataFrame.tail(window)
FrameTail(f, window) ==
    [rows |-> IF window >= f.rows THEN f.rows ELSE window,
     columns |-> f.columns,
     data |-> [c \in DOMAIN f.data |-> TailRows(f.data[c], window)]]

\* DataFrame.std(axis=0, ddof=1) * np.sqrt(TRADING_DAYS)
FrameAnnStd(f) ==
    [index |-> f.columns,
     data |-> [c \in DOMAIN f.data |-> Annualize(StdDdof1(f.data[c]))]]

\* the windowed deviation without the factor sqrt(TRADING_DAYS)
AnnVolNotAnnualized(lr, window) ==
    IF IsEmpty(lr) THEN EmptySeries
    ELSE LET tail == FrameTail(lr, window)
         IN  IF tail.rows < 2
             THEN [index |-> lr.columns, data |-> [c \in DOMAIN lr.data |-> NaN]]
             ELSE [index |-> tail.columns,
                   data |-> [c \in DOMAIN tail.data |-> StdDdof1(tail.data[c])]]

\* _ann_vol_from_logret_window(logret, window)
AnnVolFromLogretWindow(lr, window) ==
    IF IsEmpty(lr) THEN EmptySeries
    ELSE LET tail == FrameTail(lr, window)
         IN  IF tail.rows < 2
             THEN [index |-> lr.columns, data |-> [c \in DOMAIN lr.data |-> NaN]]
             ELSE FrameAnnStd(tail)

-----------------------------------------------------------------------------
(* The provider's raw table and _extract_close_df *)

\* A raw table: its column keys are tuples of labels, one label per level:
\* levels = 1 is a flat index (<<field>>), levels = 2 a MultiIndex
\* (<<level 0, level 1>>); NoneDf is None.
NoneDf == [levels |-> 0, rows |-> 0, columns |-> <<>>, data |-> <<>>]

\* the labels "x in df.columns" is true of: the labels of a flat index, the
\* level-0 labels of a MultiIndex
TopLabels(d) == {d.columns[j][1] : j \in DOMAIN d.columns}

\* df[field] / df.xs(field, axis=1, level=0) on MultiIndex columns: the
\* columns under the field, keyed by their level-1 label, in table order
SubFrame(d, field) ==
    LET keys == SelectSeq(d.columns, LAMBDA k : k[1] = field)
    IN  [rows |-> d.rows,
         columns |-> [j \in 1..Len(keys) |-> keys[j][2]],
         data |-> [c \in {keys[j][2] : j \in 1..Len(keys)} |-> d.data[<<field, c>>]]]

\* Series.to_frame(): one column, labelled with the name of the series
ToFrame(d, field) ==
    [rows |-> d.rows, columns |-> <<field>>,
     data |-> [c \in {field} |-> d.data[<<field>>]]]

\* _extract_close_df(df)
ExtractCloseDf(d) ==
    IF d = NoneDf \/ IsEmpty(d) THEN EmptyFrame
    ELSE IF CloseField \in TopLabels(d)
         THEN IF d.levels = 1 THEN ToFrame(d, CloseField)
              ELSE SubFrame(d, CloseField)
    ELSE IF d.levels = 2 /\ CloseField \in {d.columns[j][1] : j \in DOMAIN d.columns}
         THEN SubFrame(d, CloseField)
    ELSE EmptyFrame

-----------------------------------------------------------------------------
(* Batching and the records *)

Min(a, b) == IF a <= b THEN a ELSE b

\* chunked(lst, n): its j-th slice lst[(j-1)*n : j*n]
Chunk(lst, n, j) == SubSeq(lst, (j - 1) * n + 1, Min(j * n, Len(lst)))

\* the number of full slices only
NumChunksFloor(lst, n) == Len(lst) \div n

\* number of slices range(0, len(lst), n) yields
NumChunks(lst, n) == (Len(lst) + n - 1) \div n

\* None if pd.isna(x) else float(round(float(x), digits))
JsonFloat(x, digits) == IF IsNa(x) THEN None ELSE <<"round", digits, x>>

\* a null record named by its ticker instead of its display name
NullRecordBareName(sym) ==
    [symbol |-> sym, name |-> sym, price |-> None,
     vol_annual |-> None, vol_semiannual |-> None, vol_quarterly |-> None,
     vol_monthly |-> None, vol_weekly |-> None]

\* the record _append_nulls appends for sym
NullRecord(sym) ==
    [symbol |-> sym, name |-> SymbolsGet(sym), price |-> None,
     vol_annual |-> None, vol_semiannual |-> None, vol_quarterly |-> None,
     vol_monthly |-> None, vol_weekly |-> None]

\* _append_nulls(results, batch)
AppendNulls(res, batch) == res \o [j \in 1..Len(batch) |-> NullRecord(batch[j])]

\* a missing ticker blanks the whole batch
NormalizeAllOrNothing(c, batch) ==
    [rows |-> c.rows,
     columns |-> batch,
     data |-> [s \in Range(batch) |->
                  IF Range(batch) \subseteq Range(c.columns)
                  THEN c.data[s] ELSE AllNaN(c.rows)]]

\* for sym in batch: if sym not in close.columns: close[sym] = np.nan
\* close = close[batch]
Normalize(c, batch) ==
    [rows |-> c.rows,
     columns |-> batch,
     data |-> [s \in Range(batch) |->
                  IF s \in Range(c.columns) THEN c.data[s] ELSE AllNaN(c.rows)]]

\* the five volatility series of one batch
Volatilities(lr) ==
    [annual     |-> FrameAnnStd(lr),
     weekly     |-> AnnVolFromLogretWindow(lr, WINDOWS.weekly),
     monthly    |-> AnnVolFromLogretWindow(lr, WINDOWS.monthly),
     quarterly  |-> AnnVolFromLogretWindow(lr, WINDOWS.quarterly),
     semiannual |-> AnnVolFromLogretWindow(lr, WINDOWS.semiannual)]

\* the record main() appends for sym
Record(sym, last_price, v) ==
    [symbol |-> sym, name |-> SymbolsGet(sym),
     price          |-> JsonFloat(SeriesGet(last_price, sym, NaN), 6),
     vol_annual     |-> JsonFloat(SeriesGet(v.annual, sym, NaN), 8),
     vol_semiannual |-> JsonFloat(SeriesGet(v.semiannual, sym, NaN), 8),
     vol_quarterly  |-> JsonFloat(SeriesGet(v.quarterly, sym, NaN), 8),
     vol_monthly    |-> JsonFloat(SeriesGet(v.monthly, sym, NaN), 8),
     vol_weekly     |-> JsonFloat(SeriesGet(v.weekly, sym, NaN), 8)]

\* the locals of main() the loop body assigns
Locals(res, c, lr, v, branch) ==
    [results |-> res, close |-> c, logret |-> lr, vols |-> v, branch |-> branch]

\* the loop body after _extract_close_df: c is its result, st the locals so far
ProcessClose(st, batch, c) ==
    IF IsEmpty(c) \/ c.rows = 0
    THEN Locals(AppendNulls(st.results, batch), c, st.logret, st.vols, "empty")
    ELSE LET cl          == Normalize(c, batch)
             close_ffill == FrameFfill(cl)
         IN  IF IsEmpty(close_ffill) \/ close_ffill.rows = 0
             THEN Locals(AppendNulls(st.results, batch), cl, st.logret, st.vols, "empty")
             ELSE LET last_price == LastRow(close_ffill)
                      lr         == LogRet(cl)
                      v          == Volatilities(lr)
                  IN  Locals(st.results \o
                                [j \in 1..Len(batch) |-> Record(batch[j], last_price, v)],
                             cl, lr, v, "ok")

\* one iteration of "for batch in chunked(...)": out is what yf.download did
LoopBody(st, batch, out) ==
    IF out.raised
    THEN Locals(AppendNulls(st.results, batch), st.close, st.logret, st.vols, "exception")
    ELSE ProcessClose(st, batch, ExtractCloseDf(out.df))

\* a failed batch makes the loop skip the next one
NextBatchSkip(j, branch) == IF branch = "ok" THEN j + 1 ELSE j + 2

\* the batch the loop takes after the j-th
NextBatch(j, branch) == j + 1

-----------------------------------------------------------------------------
(* What the provider can answer *)

CloseVals == {NaN} \cup {Num(p) : p \in Prices}

\* close histories the provider answers with in a run of main()
SampleCloses ==
    { <<Num(1), Num(2), Num(1), Num(2)>>,
      <<Num(2), NaN, NaN, NaN>>,
      <<NaN, NaN, NaN, NaN>>,
      <<Num(1), NaN, Num(2), Num(1)>>,
      <<Num(1), Num(2), Num(1), NaN>> }

SampleRows == Len(CHOOSE c \in SampleCloses : TRUE)

\* the orders the provider lists a set of tickers in
Orders(S) ==
    LET asc == CHOOSE q \in [1..Cardinality(S) -> S] :
                  /\ Range(q) = S
                  /\ \A a, b \in DOMAIN q : a < b => q[a][2] < q[b][2]
    IN  {asc, [j \in DOMAIN asc |-> asc[Len(asc) + 1 - j]]}

\* group_by="column" with MultiIndex columns: <<field, ticker>>, Open and Close
ColumnTable(order, rows, closes) ==
    [levels |-> 2, rows |-> rows,
     columns |-> [j \in 1..Len(order) |-> <<OpenField, order[j]>>] \o
                 [j \in 1..Len(order) |-> <<CloseField, order[j]>>],
     data |-> [k \in {OpenField, CloseField} \X Range(order) |-> closes[k[2]]]]

\* MultiIndex columns <<ticker, field>>: no "Close" at level 0
TickerTable(order, rows, closes) ==
    [levels |-> 2, rows |-> rows,
     columns |-> [j \in 1..Len(order) |-> <<order[j], CloseField>>],
     data |-> [k \in Range(order) \X {CloseField} |-> closes[k[1]]]]

\* flat columns, one series per field (the one-ticker shape)
FlatTable(fields, col) ==
    [levels |-> 1, rows |-> Len(col),
     columns |-> [j \in 1..Len(fields) |-> <<fields[j]>>],
     data |-> [k \in {<<f>> : f \in Range(fields)} |-> col]]

\* the tables yf.download can return for a batch
RawTables(batch) ==
    LET B == Range(batch)
    IN  {NoneDf}
        \cup {ColumnTable(batch, 0, [s \in B |-> <<>>])}
        \cup {TickerTable(batch, SampleRows, [s \in B |-> c]) : c \in SampleCloses}
        \cup UNION { UNION { {ColumnTable(o, SampleRows, cl) : o \in Orders(P)}
                             : cl \in [P -> SampleCloses] }
                     : P \in (SUBSET B) \ {{}} }
        \cup (IF Len(batch) = 1
              THEN {FlatTable(<<OpenField, CloseField>>, c) : c \in SampleCloses}
                   \cup {FlatTable(<<OpenField>>, c) : c \in SampleCloses}
              ELSE {})

\* what one call of yf.download does: raise, or return a table
FetchOutcomes(batch) ==
    {[raised |-> TRUE, df |-> NoneDf]}
    \cup {[raised |-> FALSE, df |-> d] : d \in RawTables(batch)}

\* the Close table of one ticker, as _extract_close_df returns it
OneTickerClose(sym, col) ==
    [rows |-> Len(col), columns |-> <<sym>>, data |-> [s \in {sym} |-> col]]

-----------------------------------------------------------------------------
(* main() *)

NoVols == [annual |-> EmptySeries, weekly |-> EmptySeries, monthly |-> EmptySeries,
           quarterly |-> EmptySeries, semiannual |-> EmptySeries]

NoProbe == [window |-> 0, vol |-> EmptySeries]

Batches == [j \in 1..NumChunks(SymbolKeys, BatchSize) |-> Chunk(SymbolKeys, BatchSize, j)]

Init ==
    /\ pc = "loop"
    /\ i = 1
    /\ results = <<>>
    /\ calls = <<>>
    /\ df = NoneDf
    /\ close = EmptyFrame
    /\ logret = EmptyFrame
    /\ vols = NoVols
    /\ probe = NoProbe

\* one iteration of the for loop: fetch, extract, normalize, compute, append
Iterate ==
    /\ pc = "loop"
    /\ i <= Len(Batches)
    /\ \E out \in FetchOutcomes(Batches[i]) :
          LET st == LoopBody(Locals(results, close, logret, vols, ""), Batches[i], out)
          IN  /\ results' = st.results
              /\ close' = st.close
              /\ logret' = st.logret
              /\ vols' = st.vols
              /\ df' = out.df
              /\ calls' = Append(calls, [tickers |-> Batches[i], raised |-> out.raised,
                                         df |-> out.df, branch |-> st.branch,
                                         before |-> Len(results)])
              /\ i' = NextBatch(i, st.branch)
    /\ UNCHANGED <<pc, probe>>

\* the loop is exhausted: the payload is built from results
Finish ==
    /\ pc = "loop"
    /\ i > Len(Batches)
    /\ pc' = "done"
    /\ UNCHANGED <<i, results, calls, df, close, logret, vols, probe>>

Next == Iterate \/ Finish

Spec == Init /\ [][Next]_vars

-----------------------------------------------------------------------------
(* The volatility engine on every one-ticker Close table *)

InitEngine ==
    /\ pc = "engine"
    /\ i = 1
    /\ results = <<>>
    /\ calls = <<>>
    /\ df = NoneDf
    /\ \E r \in 0..MaxRows : \E col \in [1..r -> CloseVals] :
          close = OneTickerClose(Key(1), col)
    /\ logret = EmptyFrame
    /\ vols = NoVols
    /\ probe = NoProbe

\* the loop body from "close = _extract_close_df(df)" on, for the batch [Key(1)]
EngineProcess ==
    /\ pc = "engine"
    /\ LET st == ProcessClose(Locals(results, close, logret, vols, ""), <<Key(1)>>, close)
       IN  /\ results' = st.results
           /\ close' = st.close
           /\ logret' = st.logret
           /\ vols' = st.vols
    /\ pc' = "processed"
    /\ UNCHANGED <<i, calls, df, probe>>

\* _ann_vol_from_logret_window(logret, window) with window = all the rows of logret
WindowFull ==
    /\ pc = "processed"
    /\ probe' = [window |-> logret.rows, vol |-> AnnVolFromLogretWindow(logret, logret.rows)]
    /\ pc' = "probed"
    /\ UNCHANGED <<i, results, calls, df, close, logret, vols>>

NextEngine == EngineProcess \/ WindowFull

SpecEngine == InitEngine /\ [][NextEngine]_vars

-----------------------------------------------------------------------------
(* Properties of main(), checked under Spec *)

\* price and the five volatilities of a record are null
AllNull(r) ==
    /\ r.price = None
    /\ r.vol_annual = None /\ r.vol_semiannual = None /\ r.vol_quarterly = None
    /\ r.vol_monthly = None /\ r.vol_weekly = None

\* the records of results that belong to the j-th call
RecordOf(j, m) == results[calls[j].before + m]

\* C1: once main() has left the loop, whatever each fetch did, results holds
\* exactly one record per key of SYMBOLS, the k-th record being that of the
\* k-th key
C1_OneRecordPerSymbolInOrder ==
    pc = "done" =>
        /\ Len(results) = NumSymbols
        /\ \A k \in 1..NumSymbols : results[k].symbol = Key(k)

\* C1 witness: a finished run in which one batch raised and another was usable
C1_Witness ==
    /\ pc = "done"
    /\ \E j \in DOMAIN calls : calls[j].raised
    /\ \E j \in DOMAIN calls : calls[j].branch = "ok"
    /\ Len(calls) > 1

\* the response is absent, has no rows, or has no Close label at any level
NoCloseData(d) ==
    \/ d = NoneDf
    \/ d.rows = 0
    \/ \A j \in DOMAIN d.columns : \A l \in DOMAIN d.columns[j] :
          d.columns[j][l] # CloseField

\* C2: every ticker of a batch whose fetch raised, or whose response is
\* absent, has zero rows or has no Close field, gets a record with null price,
\* five null volatilities and its registry display name
C2_FailedBatchAllNull ==
    \A j \in DOMAIN calls :
        (calls[j].raised \/ NoCloseData(calls[j].df)) =>
            \A m \in DOMAIN calls[j].tickers :
                /\ calls[j].before + m <= Len(results)
                /\ RecordOf(j, m).symbol = calls[j].tickers[m]
                /\ AllNull(RecordOf(j, m))
                /\ \E k \in 1..NumSymbols :
                      /\ Key(k) = calls[j].tickers[m]
                      /\ RecordOf(j, m).name = DisplayName(k)

\* C2 witness: a run with a batch that raised, a batch answered with no rows
\* and nothing else
C2_Witness ==
    /\ pc = "done"
    /\ \E j \in DOMAIN calls : calls[j].raised
    /\ \E j \in DOMAIN calls : ~calls[j].raised /\ calls[j].df # NoneDf
                               /\ NoCloseData(calls[j].df)

\* C3: the j-th call of yf.download asks for the j-th slice of the registry,
\* the loop stands right after the calls made, and a finished run has made one
\* call per slice: no batch is fetched twice, none is skipped
C3_EachBatchFetchedOnceInOrder ==
    /\ \A j \in DOMAIN calls :
          calls[j].tickers =
              [m \in 1..Min(BatchSize, NumSymbols - (j - 1) * BatchSize) |->
                  Key((j - 1) * BatchSize + m)]
    /\ pc = "loop" => i = Len(calls) + 1
    /\ pc = "done" => Len(calls) * BatchSize >= NumSymbols
                      /\ (Len(calls) - 1) * BatchSize < NumSymbols

\* C3 witness: a finished run whose first batch failed and whose last batch
\* was still fetched
C3_Witness ==
    /\ pc = "done"
    /\ Len(calls) > 1
    /\ calls[1].branch # "ok"
    /\ calls[Len(calls)].branch = "ok"

\* the record ProcessClose gives a ticker alone, from its own closes
OwnRecord(sym, col) ==
    ProcessClose(Locals(<<>>, EmptyFrame, EmptyFrame, NoVols, ""), <<sym>>,
                 OneTickerClose(sym, col)).results[1]

\* the response is a table with rows and Close columns keyed by ticker
HasCloseColumns(d) ==
    /\ d.levels = 2 /\ d.rows > 0
    /\ \E j \in DOMAIN d.columns : d.columns[j][1] = CloseField

\* C8: in a batch answered with a non-empty Close table, a requested ticker
\* with no column gets an all-null record, and every ticker with a column gets
\* the record computed from its own closes
C8_AbsentSymbolOnlyNullsItself ==
    \A j \in DOMAIN calls :
        (~calls[j].raised /\ HasCloseColumns(calls[j].df)) =>
            \A m \in DOMAIN calls[j].tickers :
                LET sym == calls[j].tickers[m]
                    d   == calls[j].df
                IN  /\ calls[j].before + m <= Len(results)
                    /\ RecordOf(j, m).symbol = sym
                    /\ IF <<CloseField, sym>> \in DOMAIN d.data
                       THEN RecordOf(j, m) = OwnRecord(sym, d.data[<<CloseField, sym>>])
                       ELSE AllNull(RecordOf(j, m))

\* C8 witness: a batch where one ticker is absent and another has a price
C8_Witness ==
    \E j \in DOMAIN calls :
        /\ ~calls[j].raised /\ HasCloseColumns(calls[j].df)
        /\ \E m \in DOMAIN calls[j].tickers :
              <<CloseField, calls[j].tickers[m]>> \notin DOMAIN calls[j].df.data
        /\ \E m \in DOMAIN calls[j].tickers :
              /\ <<CloseField, calls[j].tickers[m]>> \in DOMAIN calls[j].df.data
              /\ RecordOf(j, m).price # None
              /\ RecordOf(j, m).vol_annual # None

\* the response is a one-ticker table with flat columns whose Close series
\* has no missing value
FlatCloseSeries(d) ==
    /\ d.levels = 1 /\ d.rows > 0
    /\ <<CloseField>> \in DOMAIN d.data
    /\ \A t \in 1..d.rows : ~IsNa(d.data[<<CloseField>>][t])

\* C9: a one-ticker batch answered with a flat table whose Close series has
\* no missing value yields a non-null price for the ticker
C9_FlatCloseSeriesGivesPrice ==
    \A j \in DOMAIN calls :
        (~calls[j].raised /\ Len(calls[j].tickers) = 1 /\ FlatCloseSeries(calls[j].df)) =>
            RecordOf(j, 1).price # None

-----------------------------------------------------------------------------
(* Properties of the volatility engine, checked under SpecEngine *)

\* the engine has processed a Close table with rows (the batch was usable)
Processed == pc \in {"processed", "probed"} /\ close.rows > 0

CloseCol == close.data[Key(1)]
LogRetColumn == logret.data[Key(1)]
TheRecord == results[1]

\* the rows of logret a window of w rows selects
WindowRows(w) == {t \in 1..logret.rows : t > logret.rows - w}

\* the number of non-missing log-returns among them
ValidReturns(w) == Cardinality({t \in WindowRows(w) : ~IsNa(LogRetColumn[t])})

\* C4: for each window (weekly, monthly, quarterly, semiannual, whole history),
\* fewer than 2 non-missing log-returns in the rows the window selects make
\* the record's volatility for the window null
C4_FewerThanTwoReturnsIsNull ==
    Processed =>
        /\ ValidReturns(WeeklyRows) < 2 => TheRecord.vol_weekly = None
        /\ ValidReturns(MonthlyRows) < 2 => TheRecord.vol_monthly = None
        /\ ValidReturns(QuarterlyRows) < 2 => TheRecord.vol_quarterly = None
        /\ ValidReturns(SemiannualRows) < 2 => TheRecord.vol_semiannual = None
        /\ ValidReturns(logret.rows) < 2 => TheRecord.vol_annual = None

\* C4 witness: the weekly window holds exactly one non-missing log-return
\* while the whole history holds enough for a volatility
C4_Witness ==
    /\ Processed
    /\ ValidReturns(WeeklyRows) = 1
    /\ TheRecord.vol_weekly = None
    /\ TheRecord.vol_annual # None

\* C5: for a Close table without missing values, the windowed function called
\* with window = all rows of logret gives the ticker the value the
\* whole-history computation of vol_annual gives it
C5_FullWindowEqualsWholeHistory ==
    (pc = "probed" /\ \A t \in 1..close.rows : ~IsNa(CloseCol[t])) =>
        /\ probe.window = logret.rows
        /\ SeriesGet(probe.vol, Key(1), NaN) = SeriesGet(vols.annual, Key(1), NaN)

\* C5 witness: a table without missing values whose full window has a value
C5_Witness ==
    /\ pc = "probed"
    /\ close.rows > SemiannualRows
    /\ \A t \in 1..close.rows : ~IsNa(CloseCol[t])
    /\ ~IsNa(SeriesGet(probe.vol, Key(1), NaN))

\* the dates on which the ticker has a close
ValidDates == {t \in 1..close.rows : ~IsNa(CloseCol[t])}

\* C6: the record's price is the close of the last date that has one, rounded
\* to 6 places, and it is null exactly when no date has a close
C6_PriceIsLastValidClose ==
    Processed =>
        /\ TheRecord.price = None <=> ValidDates = {}
        /\ ValidDates # {} =>
              \E t \in ValidDates :
                  /\ \A u \in ValidDates : u <= t
                  /\ TheRecord.price = <<"round", 6, CloseCol[t]>>

\* C6 witness: the last close is missing and an earlier one is carried forward
C6_Witness ==
    /\ Processed
    /\ close.rows > 2
    /\ IsNa(CloseCol[close.rows]) /\ IsNa(CloseCol[close.rows - 1])
    /\ TheRecord.price # None

\* C7: a log-return is non-missing only on a date after the first whose close
\* and whose previous close are both non-missing in the unfilled table
C7_ReturnsFromUnfilledCloses ==
    Processed =>
        /\ logret.rows = close.rows
        /\ \A t \in 1..logret.rows :
              ~IsNa(LogRetColumn[t]) =>
                  t > 1 /\ ~IsNa(CloseCol[t]) /\ ~IsNa(CloseCol[t - 1])

\* C7 witness: a gap between two closes; the returns into and out of it are
\* missing and no volatility is reported although the price is
C7_Witness ==
    /\ Processed
    /\ close.rows = 3
    /\ ~IsNa(CloseCol[1]) /\ IsNa(CloseCol[2]) /\ ~IsNa(CloseCol[3])
    /\ IsNa(LogRetColumn[2]) /\ IsNa(LogRetColumn[3])
    /\ TheRecord.vol_annual = None /\ TheRecord.price # None

\* every close the ticker has is strictly positive
PositiveCloses == \A t \in ValidDates : CloseCol[t][2] > 0

\* C10: with strictly positive closes, a non-null volatility of a window
\* implies a non-null volatility of every longer window
C10_NullnessMonotoneInWindow ==
    (Processed /\ PositiveCloses) =>
        /\ TheRecord.vol_weekly # None => TheRecord.vol_monthly # None
        /\ TheRecord.vol_monthly # None => TheRecord.vol_quarterly # None
        /\ TheRecord.vol_quarterly # None => TheRecord.vol_semiannual # None
        /\ TheRecord.vol_semiannual # None => TheRecord.vol_annual # None

\* C10 witness: positive closes, a history longer than every window, a weekly
\* volatility
C10_Witness ==
    /\ Processed /\ PositiveCloses
    /\ close.rows > SemiannualRows + 1
    /\ TheRecord.vol_weekly # None
    /\ TheRecord.vol_annual # TheRecord.vol_semiannual

====
